---- MODULE Spec2Model ----
(***************************************************************************)
(* A model of veracity (src/veracity/veracity.py): the lexer and the       *)
(* shunting-yard parser of propositional formulas, the constant-folding    *)
(* simplifier, the constraint-propagating solver and stringify.            *)
(*                                                                         *)
(* Representation of the Python values:                                    *)
(*   a str                   a sequence of one-character strings; the      *)
(*                           glyphs are written AND OR IMP NOT LP RP       *)
(*   Variable(identifier=c)  <<"Variable", c>>                             *)
(*   Negation(operand)       <<"Negation", operand>>                       *)
(*   Conjunction(lhs, rhs)   <<"Conjunction", lhs, rhs>>                   *)
(*   Disjunction(lhs, rhs)   <<"Disjunction", lhs, rhs>>                   *)
(*   Implication(conclusion, premise)                                      *)
(*                           <<"Implication", conclusion, premise>>        *)
(*   True / False            <<"bool", TRUE>> / <<"bool", FALSE>>          *)
(*   None                    <<"None">>                                    *)
(*   a Token member          <<"Token", glyph>>                            *)
(*   a dict                  <<"dict", items>>, items the sequence of      *)
(*                           <<identifier, value>> in insertion order      *)
(*   a list                  <<"list", elements>>                          *)
(*   a raised exception      <<"Error", name of the exception class>>      *)
(***************************************************************************)
EXTENDS Naturals, Sequences, FiniteSets

\* Number of distinct variable letters in the input alphabet.
NumVars == 2
\* Longest well-formed formula text, in characters.
MaxLen == 7
\* Longest arbitrary (possibly malformed) input text, in characters.
MaxRaw == 3
\* Longest parenthesis-free well-formed text, in characters.
MaxFlat == 8

VarNames == <<"P", "Q", "R", "S", "T">>
Letters == {VarNames[i] : i \in 1..NumVars}

\* Token: the six reserved glyphs.
CONJUNCTION == "AND"
DISJUNCTION == "OR"
IMPLICATION == "IMP"
NEGATION == "NOT"
RIGHT_PAREN == "RP"
LEFT_PAREN == "LP"
Token == {CONJUNCTION, DISJUNCTION, IMPLICATION, NEGATION, RIGHT_PAREN, LEFT_PAREN}
\* A character that is neither alphabetic nor a glyph (a blank).
SPACE == " "

Variable(identifier) == <<"Variable", identifier>>
Conjunction(lhs, rhs) == <<"Conjunction", lhs, rhs>>
Disjunction(lhs, rhs) == <<"Disjunction", lhs, rhs>>
Implication(conclusion, premise) == <<"Implication", conclusion, premise>>
Negation(operand) == <<"Negation", operand>>
Bool(b) == <<"bool", b>>
None == <<"None">>
Error(name) == <<"Error", name>>

isinstance(x, class) == x[1] = class
IsError(x) == x[1] = "Error"

\* The table with the entries of CONJUNCTION and DISJUNCTION exchanged.
precedence_swapped(token) ==
    CASE token = CONJUNCTION -> 20
      [] token = DISJUNCTION -> 30
      [] token = IMPLICATION -> 10
      [] token = NEGATION -> 40

\* Parser.__init__: the precedence table.
precedence(token) ==
    CASE token = CONJUNCTION -> 30
      [] token = DISJUNCTION -> 20
      [] token = IMPLICATION -> 10
      [] token = NEGATION -> 40

----------------------------------------------------------------------------
\* Parser.tokenise

\* predicate: the characters tokenise keeps.
predicate(char) == char \in Letters \/ char \in Token

RECURSIVE tokenise(_)
tokenise(proposition) ==
    IF proposition = <<>> THEN <<>>
    ELSE LET char == Head(proposition)
             rest == tokenise(Tail(proposition))
         IN IF ~predicate(char) THEN rest
            ELSE IF char \in Token THEN <<(<<"Token", char>>)>> \o rest
            ELSE <<Variable(char)>> \o rest

----------------------------------------------------------------------------
\* Parser._parse_internal

\* peek: the top of a stack, None when it is empty.
peek(stack) == IF Len(stack) = 0 THEN None ELSE stack[Len(stack)]

Pop(stack) == SubSeq(stack, 1, Len(stack) - 1)

\* handlers[top](values): the node built from the operand stack and the
\* operand stack left, or the exception raised (KeyError when top has no
\* handler, IndexError when pop finds the stack empty).
handlers(top, values) ==
    LET n == Len(values)
    IN IF top \notin {CONJUNCTION, DISJUNCTION, IMPLICATION, NEGATION}
       THEN [raised |-> "KeyError", node |-> None, values |-> values]
       ELSE IF top = NEGATION
       THEN IF n < 1
            THEN [raised |-> "IndexError", node |-> None, values |-> values]
            ELSE [raised |-> "", node |-> Negation(values[n]), values |-> Pop(values)]
       ELSE IF n < 2
       THEN [raised |-> "IndexError", node |-> None, values |-> <<>>]
       ELSE [raised |-> "",
             node |-> CASE top = CONJUNCTION -> Conjunction(values[n], values[n - 1])
                        [] top = DISJUNCTION -> Disjunction(values[n], values[n - 1])
                        [] top = IMPLICATION -> Implication(values[n], values[n - 1]),
             values |-> Pop(Pop(values))]

\* The body shared by the three while loops:
\* values.append(handlers[top](values)); operators.pop()
Reduce(st) ==
    LET h == handlers(peek(st.operators), st.values)
    IN IF h.raised # ""
       THEN [st EXCEPT !.raised = h.raised]
       ELSE [st EXCEPT !.values = Append(h.values, h.node),
                       !.operators = Pop(st.operators)]

\* RIGHT_PAREN: reduce down to the nearest LEFT_PAREN.
RECURSIVE WhileNotLeftParen(_)
WhileNotLeftParen(st) ==
    IF st.raised # "" THEN st
    ELSE IF Len(st.operators) > 0 /\ peek(st.operators) # LEFT_PAREN
    THEN WhileNotLeftParen(Reduce(st))
    ELSE st

\* The comparison written >= : equal precedence reduces at once.
TighterOrEqual(top, token) == precedence(top) >= precedence(token)

\* self.precedence[top] > self.precedence[token]
Tighter(top, token) == precedence(top) > precedence(token)

\* Any other operator token: reduce while the top binds strictly tighter.
RECURSIVE WhileTighter(_, _)
WhileTighter(st, token) ==
    IF st.raised # "" THEN st
    ELSE IF /\ Len(st.operators) > 0
            /\ peek(st.operators) \notin {LEFT_PAREN, RIGHT_PAREN}
            /\ Tighter(peek(st.operators), token)
    THEN WhileTighter(Reduce(st), token)
    ELSE st

\* End of input: reduce every operator left.
RECURSIVE WhileOperators(_)
WhileOperators(st) ==
    IF st.raised # "" THEN st
    ELSE IF Len(st.operators) > 0 THEN WhileOperators(Reduce(st))
    ELSE st

\* One iteration of "for token in tokens".
ParseToken(st, token) ==
    IF isinstance(token, "Variable")
    THEN [st EXCEPT !.values = Append(st.values, token)]
    ELSE IF token[2] = LEFT_PAREN
    THEN [st EXCEPT !.operators = Append(st.operators, LEFT_PAREN)]
    ELSE IF token[2] = RIGHT_PAREN
    THEN LET s == WhileNotLeftParen(st)
         IN IF s.raised # "" THEN s
            ELSE IF Len(s.operators) = 0 THEN [s EXCEPT !.raised = "IndexError"]
            ELSE [s EXCEPT !.operators = Pop(s.operators)]
    ELSE LET s == WhileTighter(st, token[2])
         IN IF s.raised # "" THEN s
            ELSE [s EXCEPT !.operators = Append(s.operators, token[2])]

RECURSIVE ForTokens(_, _)
ForTokens(st, tokens) ==
    IF st.raised # "" \/ tokens = <<>> THEN st
    ELSE ForTokens(ParseToken(st, Head(tokens)), Tail(tokens))

_parse_internal(tokens) ==
    LET s == WhileOperators(
                 ForTokens([operators |-> <<>>, values |-> <<>>, raised |-> ""], tokens))
    IN IF s.raised # "" THEN Error(s.raised) ELSE peek(s.values)

\* Parser(proposition).parse()
parse(proposition) == _parse_internal(tokenise(proposition))

----------------------------------------------------------------------------
\* dict and list values

EmptyDict == <<"dict", <<>>>>
List(elements) == <<"list", elements>>

\* mapping.get(key, default)
dict_get(mapping, key, default) ==
    LET items == mapping[2]
        at == {i \in 1..Len(items) : items[i][1] = key}
    IN IF at = {} THEN default ELSE items[CHOOSE i \in at : TRUE][2]

\* mapping[key] = value: a key already present keeps its place.
dict_set(mapping, key, value) ==
    LET items == mapping[2]
        at == {i \in 1..Len(items) : items[i][1] = key}
    IN IF at = {} THEN <<"dict", Append(items, <<key, value>>)>>
       ELSE <<"dict", [i \in 1..Len(items) |->
                          IF i \in at THEN <<key, value>> ELSE items[i]]>>

\* Iterating a dict yields its keys, the Variable objects, in insertion order.
dict_keys(mapping) == [i \in 1..Len(mapping[2]) |-> Variable(mapping[2][i][1])]

----------------------------------------------------------------------------
\* _solve_expr

\* The Variable branch without its test of the value already bound.
solve_variable_unchecked(expr, mapping, constraint) ==
    IF ~isinstance(mapping, "dict") THEN Error("AttributeError")
    ELSE List(<<dict_set(mapping, expr[2], constraint)>>)

\* The Variable branch: a mapping that binds the variable to the other value
\* is dropped, any other mapping binds it to constraint.  (A list element
\* that is no dict has no get.)
solve_variable(expr, mapping, constraint) ==
    IF ~isinstance(mapping, "dict") THEN Error("AttributeError")
    ELSE IF dict_get(mapping, expr[2], constraint) # constraint THEN List(<<>>)
    ELSE List(<<dict_set(mapping, expr[2], constraint)>>)

RECURSIVE _solve_expr(_, _, _), solve_mapping(_, _, _)

\* What one iteration of "for mapping in mappings" adds to new_mappings: a
\* list, or the exception it raises.  Each branch of a Disjunction works on
\* its own dict (the deepcopy), so the dicts are handled as values.
solve_mapping(expr, mapping, constraint) ==
    IF isinstance(expr, "Variable")
    THEN solve_variable(expr, mapping, constraint)
    ELSE IF isinstance(expr, "Disjunction")
    THEN LET l == _solve_expr(expr[2], <<mapping>>, constraint)
         IN IF IsError(l) THEN l
            ELSE LET r == _solve_expr(expr[3], <<mapping>>, constraint)
                 IN IF IsError(r) THEN r ELSE List(l[2] \o r[2])
    ELSE IF isinstance(expr, "Conjunction")
    THEN LET m == _solve_expr(expr[2], <<mapping>>, constraint)
         IN IF IsError(m) THEN m ELSE _solve_expr(expr[3], m[2], constraint)
    ELSE IF isinstance(expr, "Negation")
    THEN _solve_expr(expr[2], <<mapping>>, ~constraint)
    ELSE IF isinstance(expr, "Implication")
    THEN IF constraint = FALSE
         THEN LET m == _solve_expr(expr[3], <<mapping>>, TRUE)
              IN IF IsError(m) THEN m ELSE _solve_expr(expr[2], m[2], FALSE)
         ELSE List(<<mapping>>)
    \* No branch taken (a bool operand): new_mappings.extend(mapping) is
    \* handed the mapping itself and appends its keys.
    ELSE IF isinstance(mapping, "dict") THEN List(dict_keys(mapping))
    ELSE Error("TypeError")

_solve_expr(expr, mappings, constraint) ==
    IF mappings = <<>> THEN List(<<>>)
    ELSE LET first == solve_mapping(expr, Head(mappings), constraint)
         IN IF IsError(first) THEN first
            ELSE LET others == _solve_expr(expr, Tail(mappings), constraint)
                 IN IF IsError(others) THEN others
                    ELSE List(first[2] \o others[2])

solve_expr(expr) == _solve_expr(expr, <<EmptyDict>>, TRUE)

----------------------------------------------------------------------------
\* simplify

\* reduce_constexprs: the bool returned (ok), the node as the call leaves it
\* (a Disjunction's operands are assigned in place) and the shared mapping.
RECURSIVE reduce_constexprs(_, _, _)
reduce_constexprs(expr, constraint, mapping) ==
    IF isinstance(expr, "Variable")
    THEN IF dict_get(mapping, expr[2], constraint) # constraint
         THEN [ok |-> FALSE, expr |-> expr, mapping |-> mapping]
         ELSE [ok |-> TRUE, expr |-> expr,
               mapping |-> dict_set(mapping, expr[2], constraint)]
    ELSE IF isinstance(expr, "Negation")
    THEN LET o == reduce_constexprs(expr[2], ~constraint, mapping)
         IN [ok |-> o.ok, expr |-> Negation(o.expr), mapping |-> o.mapping]
    ELSE IF isinstance(expr, "Implication")
    THEN LET p == reduce_constexprs(expr[3], constraint, mapping)
         IN IF ~p.ok
            THEN [ok |-> FALSE, expr |-> Implication(expr[2], p.expr),
                  mapping |-> p.mapping]
            ELSE LET c == reduce_constexprs(expr[2], constraint, p.mapping)
                 IN [ok |-> c.ok, expr |-> Implication(c.expr, p.expr),
                     mapping |-> c.mapping]
    ELSE IF isinstance(expr, "Conjunction")
    THEN LET l == reduce_constexprs(expr[2], TRUE, mapping)
         IN IF ~l.ok
            THEN [ok |-> FALSE, expr |-> Conjunction(l.expr, expr[3]),
                  mapping |-> l.mapping]
            ELSE LET r == reduce_constexprs(expr[3], TRUE, l.mapping)
                 IN [ok |-> r.ok, expr |-> Conjunction(l.expr, r.expr),
                     mapping |-> r.mapping]
    ELSE IF isinstance(expr, "Disjunction")
    THEN LET l == reduce_constexprs(expr[2], TRUE, mapping)
             r == reduce_constexprs(expr[3], TRUE, l.mapping)
         IN [ok |-> ~(l.ok = r.ok /\ r.ok = FALSE),
             expr |-> Disjunction(IF l.ok THEN l.expr ELSE Bool(l.ok),
                                  IF r.ok THEN r.expr ELSE Bool(l.ok)),
             mapping |-> r.mapping]
    ELSE [ok |-> TRUE, expr |-> expr, mapping |-> mapping]

\* Python truth value: False is falsy, every node object is truthy.
Truthy(x) == ~(isinstance(x, "bool") /\ x[2] = FALSE)
IsTrue(x) == isinstance(x, "bool") /\ x[2] = TRUE

\* rewrite: the value returned (ret) and the node as the call leaves it
\* (an Implication's and a Negation's fields are assigned in place).
RECURSIVE rewrite(_)

\* The Disjunction branch returning the chosen operand as it is, without
\* the recursive call.
rewrite_disjunction_unrewritten(expr) ==
    IF IsTrue(expr[2]) /\ IsTrue(expr[3])
    THEN [ret |-> expr, expr |-> expr]
    ELSE IF Truthy(expr[2])
    THEN [ret |-> expr[2], expr |-> expr]
    ELSE [ret |-> expr[3], expr |-> expr]

\* The Disjunction branch: return rewrite(expr.lhs if expr.lhs else expr.rhs)
rewrite_disjunction(expr) ==
    IF IsTrue(expr[2]) /\ IsTrue(expr[3])
    THEN [ret |-> expr, expr |-> expr]
    ELSE IF Truthy(expr[2])
    THEN LET l == rewrite(expr[2])
         IN [ret |-> l.ret, expr |-> Disjunction(l.expr, expr[3])]
    ELSE LET r == rewrite(expr[3])
         IN [ret |-> r.ret, expr |-> Disjunction(expr[2], r.expr)]

rewrite(expr) ==
    IF isinstance(expr, "Disjunction")
    THEN rewrite_disjunction(expr)
    ELSE IF isinstance(expr, "Conjunction")
    THEN IF IsTrue(expr[2]) /\ IsTrue(expr[3])
         \* return rewrite(expr): the same call again, without end
         THEN [ret |-> Error("RecursionError"), expr |-> expr]
         ELSE [ret |-> Bool(FALSE), expr |-> expr]
    ELSE IF isinstance(expr, "Implication")
    THEN LET p == rewrite(expr[3])
         IN IF IsError(p.ret)
            THEN [ret |-> p.ret, expr |-> Implication(expr[2], p.expr)]
            ELSE LET c == rewrite(expr[2])
                 IN IF IsError(c.ret)
                    THEN [ret |-> c.ret, expr |-> Implication(c.expr, p.ret)]
                    ELSE [ret |-> Implication(c.ret, p.ret),
                          expr |-> Implication(c.ret, p.ret)]
    ELSE IF isinstance(expr, "Negation")
    THEN LET o == rewrite(expr[2])
         IN IF IsError(o.ret)
            THEN [ret |-> o.ret, expr |-> Negation(o.expr)]
            ELSE [ret |-> Negation(o.ret), expr |-> Negation(o.ret)]
    ELSE [ret |-> expr, expr |-> expr]

\* simplify(expr): the value returned and the argument as the call leaves it.
simplify(expr) == rewrite(reduce_constexprs(expr, TRUE, EmptyDict).expr)

\* solve(proposition): simplify's result is dropped, its assignments to the
\* nodes of expr are not.
solve(proposition) ==
    LET expr == parse(proposition)
    IN IF IsError(expr) THEN expr
       ELSE IF isinstance(expr, "None") THEN None
       ELSE LET simplified == simplify(expr)
            IN IF IsError(simplified.ret) THEN simplified.ret
               ELSE _solve_expr(simplified.expr, <<EmptyDict>>, TRUE)

----------------------------------------------------------------------------
\* stringify (applied to the five node kinds; bool and None operands are
\* never passed to it here)

RECURSIVE stringify(_)
stringify(expr) ==
    CASE isinstance(expr, "Variable") -> <<expr[2]>>
      [] isinstance(expr, "Negation") ->
           <<LEFT_PAREN, NEGATION>> \o stringify(expr[2]) \o <<RIGHT_PAREN>>
      [] isinstance(expr, "Conjunction") ->
           <<LEFT_PAREN>> \o stringify(expr[2]) \o <<SPACE, CONJUNCTION, SPACE>>
               \o stringify(expr[3]) \o <<RIGHT_PAREN>>
      [] isinstance(expr, "Disjunction") ->
           <<LEFT_PAREN>> \o stringify(expr[2]) \o <<SPACE, DISJUNCTION, SPACE>>
               \o stringify(expr[3]) \o <<RIGHT_PAREN>>
      [] isinstance(expr, "Implication") ->
           <<LEFT_PAREN>> \o stringify(expr[3]) \o <<SPACE, IMPLICATION, SPACE>>
               \o stringify(expr[2]) \o <<RIGHT_PAREN>>

----------------------------------------------------------------------------
\* Python's == on the values the calls return: dicts are equal when they
\* hold the same items, whatever the insertion order.

DictItems(mapping) == {mapping[2][i] : i \in 1..Len(mapping[2])}

ElementEq(a, b) ==
    IF isinstance(a, "dict") /\ isinstance(b, "dict") THEN DictItems(a) = DictItems(b)
    ELSE IF isinstance(a, "Variable") /\ isinstance(b, "Variable") THEN a[2] = b[2]
    ELSE FALSE

ResultEq(x, y) ==
    IF isinstance(x, "list") /\ isinstance(y, "list")
    THEN /\ Len(x[2]) = Len(y[2])
         /\ \A i \in 1..Len(x[2]) : ElementEq(x[2][i], y[2][i])
    ELSE IF isinstance(x, "Error") /\ isinstance(y, "Error") THEN x[2] = y[2]
    ELSE isinstance(x, "None") /\ isinstance(y, "None")

----------------------------------------------------------------------------
\* Input texts

BinaryGlyphs == {CONJUNCTION, DISJUNCTION, IMPLICATION}

\* Well-formed formula texts of at most n characters:
\*   formula ::= operand | operand binary-glyph formula
\*   operand ::= letter | NOT operand | LP formula RP
\* listed by the way a formula starts: a letter, alone or followed by a
\* binary glyph and a formula; NOT, followed by a formula (NOT applies to
\* its first operand); or a parenthesised formula, alone or followed by a
\* binary glyph and a formula.
RECURSIVE FormulaTexts(_)
FormulaTexts(n) ==
    IF n < 1 THEN {}
    ELSE LET S == FormulaTexts(n - 1)
         IN {<<c>> : c \in Letters}
            \cup {<<c, g>> \o f : c \in Letters, g \in BinaryGlyphs,
                                 f \in {s \in S : Len(s) <= n - 2}}
            \cup {<<NEGATION>> \o f : f \in S}
            \cup {<<LEFT_PAREN>> \o f \o <<RIGHT_PAREN>> :
                     f \in {s \in S : Len(s) <= n - 2}}
            \cup UNION {{<<LEFT_PAREN>> \o f \o <<RIGHT_PAREN, g>> \o h :
                            g \in BinaryGlyphs,
                            h \in {s \in S : Len(f) + Len(s) <= n - 3}} :
                        f \in {s \in S : Len(s) <= n - 4}}

WellFormedTexts == FormulaTexts(MaxLen)

\* Every text of at most n characters over the letters, the glyphs and a blank.
Alphabet == Letters \cup Token \cup {SPACE}

RECURSIVE Strings(_)
Strings(n) ==
    IF n = 0 THEN {<<>>}
    ELSE LET S == Strings(n - 1)
         IN S \cup {Append(s, c) : s \in {t \in S : Len(t) = n - 1}, c \in Alphabet}

RawTexts == Strings(MaxRaw)

\* Parenthesis-free well-formed texts of at most n characters: a letter,
\* alone or followed by a binary glyph and such a text, or NOT followed by
\* such a text.
RECURSIVE FlatFormulaTexts(_)
FlatFormulaTexts(n) ==
    IF n < 1 THEN {}
    ELSE LET S == FlatFormulaTexts(n - 1)
         IN {<<c>> : c \in Letters}
            \cup {<<c, g>> \o f : c \in Letters, g \in BinaryGlyphs,
                                 f \in {s \in S : Len(s) <= n - 2}}
            \cup {<<NEGATION>> \o f : f \in S}

FlatTexts == FlatFormulaTexts(MaxFlat)

NoParentheses(t) == \A i \in 1..Len(t) : t[i] \notin {LEFT_PAREN, RIGHT_PAREN}

----------------------------------------------------------------------------
\* The calls a client makes on one input text.

VARIABLES
    proposition,   \* the input text
    pc,            \* the last call made
    raised,        \* the exception that call raised, None when it returned
    expr,          \* the tree Parser.parse returned, as later calls leave it
    simplified,    \* what simplify(expr) returned
    resimplified,  \* what simplify(simplified) returned
    constraint,    \* the constraint handed to _solve_expr
    solutions,     \* what solve, solve_expr or _solve_expr returned
    text,          \* what stringify(expr) returned
    reparsed       \* what Parser(text).parse() returned

vars == <<proposition, pc, raised, expr, simplified, resimplified, constraint,
          solutions, text, reparsed>>

Start(inputs) ==
    /\ proposition \in inputs
    /\ pc = "start"
    /\ raised = None
    /\ expr = None
    /\ simplified = None
    /\ resimplified = None
    /\ constraint = TRUE
    /\ solutions = None
    /\ text = <<>>
    /\ reparsed = None

Init == Start(WellFormedTexts \cup RawTexts)

\* The call returned a tree.
Returned(x) == raised = None /\ ~isinstance(x, "None")

\* expr = Parser(proposition).parse()
Parse ==
    /\ pc = "start"
    /\ pc' = "parse"
    /\ LET r == parse(proposition)
       IN IF IsError(r) THEN raised' = r /\ expr' = expr
          ELSE raised' = raised /\ expr' = r
    /\ UNCHANGED <<proposition, simplified, resimplified, constraint, solutions,
                   text, reparsed>>

\* solutions = solve(proposition)
Solve ==
    /\ pc = "start"
    /\ pc' = "solve"
    /\ LET r == solve(proposition)
       IN IF IsError(r) THEN raised' = r /\ solutions' = solutions
          ELSE raised' = raised /\ solutions' = r
    /\ UNCHANGED <<proposition, expr, simplified, resimplified, constraint, text,
                   reparsed>>

\* simplified = simplify(expr), which assigns to the nodes of expr
Simplify ==
    /\ pc = "parse" /\ Returned(expr)
    /\ pc' = "simplify"
    /\ LET r == simplify(expr)
       IN /\ expr' = r.expr
          /\ IF IsError(r.ret) THEN raised' = r.ret /\ simplified' = simplified
             ELSE raised' = raised /\ simplified' = r.ret
    /\ UNCHANGED <<proposition, resimplified, constraint, solutions, text, reparsed>>

\* resimplified = simplify(simplified).  (SimplifyLeavesArgument shows that
\* this call changes no node, so the nodes expr shares stay as they are.)
SimplifyAgain ==
    /\ pc = "simplify" /\ raised = None
    /\ pc' = "simplify again"
    /\ LET r == simplify(simplified)
       IN IF IsError(r.ret) THEN raised' = r.ret /\ resimplified' = resimplified
          ELSE raised' = raised /\ resimplified' = r.ret
    /\ UNCHANGED <<proposition, expr, simplified, constraint, solutions, text,
                   reparsed>>

\* solutions = _solve_expr(expr, [{}], c); solve_expr(expr) is the call with
\* c = True.
SolveFor(c) ==
    /\ pc = "parse" /\ Returned(expr)
    /\ pc' = "_solve_expr"
    /\ constraint' = c
    /\ LET r == _solve_expr(expr, <<EmptyDict>>, c)
       IN IF IsError(r) THEN raised' = r /\ solutions' = solutions
          ELSE raised' = raised /\ solutions' = r
    /\ UNCHANGED <<proposition, expr, simplified, resimplified, text, reparsed>>

\* solutions = solve_expr(Conjunction(lhs=True, rhs=expr))
SolveConstant ==
    /\ pc = "parse" /\ Returned(expr)
    /\ pc' = "solve_expr constant"
    /\ LET r == solve_expr(Conjunction(Bool(TRUE), expr))
       IN IF IsError(r) THEN raised' = r /\ solutions' = solutions
          ELSE raised' = raised /\ solutions' = r
    /\ UNCHANGED <<proposition, expr, simplified, resimplified, constraint, text,
                   reparsed>>

\* text = stringify(expr)
Stringify ==
    /\ pc = "parse" /\ Returned(expr)
    /\ pc' = "stringify"
    /\ text' = stringify(expr)
    /\ UNCHANGED <<proposition, raised, expr, simplified, resimplified, constraint,
                   solutions, reparsed>>

\* reparsed = Parser(text).parse()
Reparse ==
    /\ pc = "stringify"
    /\ pc' = "reparse"
    /\ LET r == parse(text)
       IN IF IsError(r) THEN raised' = r /\ reparsed' = reparsed
          ELSE raised' = raised /\ reparsed' = r
    /\ UNCHANGED <<proposition, expr, simplified, resimplified, constraint,
                   solutions, text>>

Next ==
    \/ Parse
    \/ Solve
    \/ Simplify
    \/ SimplifyAgain
    \/ \E c \in BOOLEAN : SolveFor(c)
    \/ SolveConstant
    \/ Stringify
    \/ Reparse

Spec == Init /\ [][Next]_vars

\* The parser alone, on the parenthesis-free well-formed texts.
InitParser == Start(FlatTexts)
NextParser == Parse
SpecParser == InitParser /\ [][NextParser]_vars

----------------------------------------------------------------------------
\* Classical semantics of the trees the parser builds.

Assignments == [Letters -> BOOLEAN]

RECURSIVE Eval(_, _)
Eval(e, a) ==
    CASE isinstance(e, "Variable") -> a[e[2]]
      [] isinstance(e, "Negation") -> ~Eval(e[2], a)
      [] isinstance(e, "Conjunction") -> Eval(e[2], a) /\ Eval(e[3], a)
      [] isinstance(e, "Disjunction") -> Eval(e[2], a) \/ Eval(e[3], a)
      [] isinstance(e, "Implication") -> Eval(e[3], a) => Eval(e[2], a)

Satisfiable(e) == \E a \in Assignments : Eval(e, a)

\* The total assignment a agrees with the mapping on every variable it binds.
Agrees(a, mapping) ==
    \A i \in 1..Len(mapping[2]) : a[mapping[2][i][1]] = mapping[2][i][2]

IsFalse(x) == isinstance(x, "bool") /\ x[2] = FALSE

\* Variables, negated variables, conjunctions and disjunctions only.
RECURSIVE InFragment(_)
InFragment(e) ==
    CASE isinstance(e, "Variable") -> TRUE
      [] isinstance(e, "Negation") -> isinstance(e[2], "Variable")
      [] isinstance(e, "Conjunction") -> InFragment(e[2]) /\ InFragment(e[3])
      [] isinstance(e, "Disjunction") -> InFragment(e[2]) /\ InFragment(e[3])
      [] OTHER -> FALSE

\* No node has an operand whose operator binds less tightly than its own.
RECURSIVE RespectsPrecedence(_)
RespectsPrecedence(e) ==
    CASE isinstance(e, "Variable") -> TRUE
      [] isinstance(e, "Negation") ->
           /\ e[2][1] \in {"Variable", "Negation"}
           /\ RespectsPrecedence(e[2])
      [] isinstance(e, "Conjunction") ->
           /\ e[2][1] \notin {"Disjunction", "Implication"}
           /\ e[3][1] \notin {"Disjunction", "Implication"}
           /\ RespectsPrecedence(e[2]) /\ RespectsPrecedence(e[3])
      [] isinstance(e, "Disjunction") ->
           /\ e[2][1] # "Implication" /\ e[3][1] # "Implication"
           /\ RespectsPrecedence(e[2]) /\ RespectsPrecedence(e[3])
      [] isinstance(e, "Implication") ->
           RespectsPrecedence(e[2]) /\ RespectsPrecedence(e[3])

\* A chain: the text "A g B g C" of three literals A, B, C joined by the
\* same binary glyph g twice.
BinaryAt(t) == {i \in 1..Len(t) : t[i] \in BinaryGlyphs}
IsChain(t) ==
    /\ Cardinality(BinaryAt(t)) = 2
    /\ \A i \in BinaryAt(t), j \in BinaryAt(t) : t[i] = t[j]
    /\ t \in FlatTexts
ChainGlyph(t) == t[CHOOSE i \in BinaryAt(t) : TRUE]
ChainA(t) == SubSeq(t, 1, (CHOOSE i \in BinaryAt(t) : \A j \in BinaryAt(t) : i <= j) - 1)
ChainB(t) ==
    SubSeq(t, (CHOOSE i \in BinaryAt(t) : \A j \in BinaryAt(t) : i <= j) + 1,
              (CHOOSE i \in BinaryAt(t) : \A j \in BinaryAt(t) : i >= j) - 1)
ChainC(t) ==
    SubSeq(t, (CHOOSE i \in BinaryAt(t) : \A j \in BinaryAt(t) : i >= j) + 1, Len(t))
\* "(A g B) g C" and "A g (B g C)"
LeftGrouped(A, g, B, C) == <<LEFT_PAREN>> \o A \o <<g>> \o B \o <<RIGHT_PAREN, g>> \o C
RightGrouped(A, g, B, C) == A \o <<g, LEFT_PAREN>> \o B \o <<g>> \o C \o <<RIGHT_PAREN>>

----------------------------------------------------------------------------
\* C1: every mapping that _solve_expr(e, [{}], c) returns for the tree e of
\* a formula is sufficient on its own: each total assignment that agrees
\* with it makes e evaluate to c.
SolutionsSufficient ==
    (pc = "_solve_expr" /\ raised = None /\ proposition \in WellFormedTexts) =>
        \A i \in 1..Len(solutions[2]) : \A a \in Assignments :
            Agrees(a, solutions[2][i]) => (Eval(expr, a) = constraint)

\* C2: on a tree of variables, negated variables, conjunctions and
\* disjunctions, solve_expr returns an exact cover of the models: an
\* assignment makes e true if and only if it agrees with a returned mapping,
\* and the list is empty exactly when e is unsatisfiable.
ExactCover ==
    (pc = "_solve_expr" /\ constraint = TRUE /\ InFragment(expr)) =>
        /\ raised = None
        /\ \A a \in Assignments :
               Eval(expr, a) <=> \E i \in 1..Len(solutions[2]) : Agrees(a, solutions[2][i])
        /\ (solutions[2] = <<>>) <=> ~Satisfiable(expr)

\* C2 witness: a disjunction over a conjunction, one branch of which was
\* dropped for binding a variable both ways.
ExactCoverReached ==
    /\ pc = "_solve_expr" /\ constraint = TRUE /\ InFragment(expr)
    /\ isinstance(expr, "Disjunction")
    /\ isinstance(expr[3], "Conjunction")
    /\ ~Satisfiable(expr[3])
    /\ Len(solutions[2]) = 1

\* C3: when the text parses to a tree, solve(text) returns the list that
\* solve_expr returns for a freshly parsed tree of the same text.
SolveIgnoresSimplify ==
    (pc = "solve" /\ ~IsError(parse(proposition))
                  /\ ~isinstance(parse(proposition), "None")) =>
        /\ raised = None
        /\ ResultEq(solutions, solve_expr(parse(proposition)))

\* C4: for a well-formed text, parsing stringify(parse(text)) gives a tree
\* equal to parse(text).
RoundTrip ==
    (pc = "reparse" /\ proposition \in WellFormedTexts) =>
        raised = None /\ reparsed = expr

\* C5: for the tree e of a formula, simplify(e) returns False if and only
\* if no assignment makes e true.
SimplifyFalseIffUnsatisfiable ==
    (pc = "simplify" /\ raised = None /\ proposition \in WellFormedTexts) =>
        (IsFalse(simplified) <=> ~Satisfiable(parse(proposition)))

\* C6: Parser.parse raises no error, whatever the text.
ParseNeverRaises == pc = "parse" => raised = None

\* The second call of simplify assigns to no node of its argument.
SimplifyLeavesArgument == simplify(simplified).expr = simplified

\* C7: simplify applied to the value simplify(e) returned returns a value
\* equal to it.
SimplifyIdempotent ==
    pc = "simplify again" =>
        raised = None /\ resimplified = simplified /\ SimplifyLeavesArgument

\* C7 witness: the first call returned an implication it had rewritten (a
\* disjunction under it replaced by one operand), and simplify ran again.
SimplifyIdempotentReached ==
    /\ pc = "simplify again"
    /\ isinstance(simplified, "Implication")
    /\ simplified # parse(proposition)

\* C8: the tree of a parenthesis-free well-formed text has no node with an
\* operand whose operator binds less tightly (negation > conjunction >
\* disjunction > implication).
PrecedenceRespected ==
    (pc = "parse" /\ proposition \in FlatTexts /\ NoParentheses(proposition)) =>
        raised = None /\ RespectsPrecedence(expr)

\* C8 witness: a text with all four operators, parsed to an implication
\* over a disjunction over a conjunction over a negation.
PrecedenceReached ==
    /\ pc = "parse" /\ raised = None /\ NoParentheses(proposition)
    /\ isinstance(expr, "Implication")
    /\ isinstance(expr[3], "Disjunction")
    /\ isinstance(expr[3][3], "Conjunction")
    /\ isinstance(expr[3][3][3], "Negation")

\* C9: a constant True as operand of a Conjunction is neutral:
\* solve_expr(Conjunction(True, e)) returns the list solve_expr(e) returns.
ConstantNeutral ==
    pc = "solve_expr constant" =>
        raised = None /\ ResultEq(solutions, solve_expr(expr))

\* C10 as stated: "A g B g C" parses as "(A g B) g C" (left-associative).
LeftAssociative ==
    (pc = "parse" /\ IsChain(proposition)) =>
        /\ raised = None
        /\ expr = parse(LeftGrouped(ChainA(proposition), ChainGlyph(proposition),
                                    ChainB(proposition), ChainC(proposition)))

\* C10 amended: "A g B g C" parses as "A g (B g C)" (right-associative); for
\* implication the premise is the tree of A and the conclusion the tree of
\* "B g C".
RightAssociative ==
    (pc = "parse" /\ IsChain(proposition)) =>
        /\ raised = None
        /\ expr = parse(RightGrouped(ChainA(proposition), ChainGlyph(proposition),
                                     ChainB(proposition), ChainC(proposition)))
        /\ ChainGlyph(proposition) = IMPLICATION =>
               /\ isinstance(expr, "Implication")
               /\ expr[3] = parse(ChainA(proposition))
               /\ expr[2] = parse(ChainB(proposition) \o <<IMPLICATION>>
                                                      \o ChainC(proposition))

\* C10 witness: a chain of two implications whose first operand is negated
\* has been parsed.
RightAssociativeReached ==
    /\ pc = "parse" /\ raised = None
    /\ IsChain(proposition)
    /\ ChainGlyph(proposition) = IMPLICATION
    /\ Len(ChainA(proposition)) > 1

====
